---- MODULE Spec2Model ----
(***************************************************************************)
(* A model of the walking-routes map component                             *)
(* (src/components/map-component.tsx) with the two provider calls of       *)
(* src/lib/mapbox-api.ts and the point sampler of src/lib/types.ts.        *)
(*                                                                         *)
(* The React state of MapComponent and its refs are the variables.  A      *)
(* handler reads the state of the render it was created in: the async      *)
(* generateRoutes keeps reading the values it closed over when the button  *)
(* was pressed (variable closure), while refs (map.current,                *)
(* waypointMarkersRef.current) are read live.  Coordinates are points of   *)
(* an integer grid, durations are whole seconds.                           *)
(*                                                                         *)
(* Left out: zoom, useImperial, debugInfo, isochroneData and the start     *)
(* marker (written, never read by the modelled handlers), the route's      *)
(* distance and elevationDifference, and the map's "error" event.          *)
(***************************************************************************)
EXTENDS Integers, Sequences, FiniteSets, Bags

VARIABLES
    lng, lat,            \* useState: the starting point
    walkDuration,        \* useState: minutes chosen on the slider
    loading,             \* useState
    routes,              \* useState: the displayed route set
    activeRouteIndex,    \* useState: the active tab, a string
    error,               \* useState: the message shown, or none
    mapInitialized,      \* useState
    map,                 \* map.current: the mapbox map object
    waypointMarkersRef,  \* waypointMarkersRef.current
    pc,                  \* where the async generateRoutes is suspended
    closure,             \* the state values generateRoutes closed over
    isochroneResponse,   \* local of generateRoutes
    randomPoints,        \* local of generateRoutes
    routeWaypoints,      \* local of generateRoutes
    routePromises,       \* local of generateRoutes
    pairIndex,           \* the for-of loop's position in routeWaypoints
    requests,            \* the bag of provider calls issued and not yet settled
    response,            \* a settled call whose continuation has not run yet
    args                 \* the arguments of a lone call of the sampler

vars == <<lng, lat, walkDuration, loading, routes, activeRouteIndex, error,
          mapInitialized, map, waypointMarkersRef, pc, closure,
          isochroneResponse, randomPoints, routeWaypoints, routePromises,
          pairIndex, requests, response, args>>

----------------------------------------------------------------------------
(* Bounds of the model *)

\* The slider is moved at most this many steps away from its default value.
MaxSlide == 1
\* Map clicks land on the grid points <<k, k>>, k in 0..MaxClick.
MaxClick == 1
\* Math.random() returns one of the fractions 0/RandMod .. (RandMod-1)/RandMod.
RandMod == 5
\* The generator's state when a run starts sampling is one of 0..MaxSeed.
MaxSeed == 0
\* Counts and walk durations the pure functions are tried on.
MaxCount == 12
MaxWalk == 100

(* Program constants *)

SliderMin == 10
SliderMax == 90
SliderStep == 5
SliderDefault == 30
SampleCount == 12
MinHalfDuration == 5
MaxDisplayed == 3
ClearedRouteIds == 10

----------------------------------------------------------------------------
(* Helpers *)

Max(a, b) == IF a >= b THEN a ELSE b
Min(a, b) == IF a <= b THEN a ELSE b

\* Number.prototype.toString and Number.parseInt on the tab values
Digits == <<"0", "1", "2", "3", "4", "5", "6", "7", "8", "9">>
toString(n) == Digits[n + 1]
parseInt(s) == (CHOOSE k \in 1..Len(Digits) : Digits[k] = s) - 1

----------------------------------------------------------------------------
(* Geometry: a polygon is its outer ring, a closed sequence of grid points  *)

X(p) == p[1]
Y(p) == p[2]

\* Two triangles, and a thin polygon none of the sampler's candidate points
\* falls into.
Triangle == << <<0, 0>>, <<4, 0>>, <<0, 4>>, <<0, 0>> >>
Wedge == << <<0, 0>>, <<4, 4>>, <<0, 4>>, <<0, 0>> >>
Sliver == << <<0, 1>>, <<4, 0>>, <<4, 1>>, <<0, 1>> >>
\* The reachability polygons the provider answers with.
Polygons == {Triangle, Sliver}
\* The polygons the sampler alone is tried on.
SamplePolygons == {Triangle, Wedge, Sliver}

\* turf.bbox: [minX, minY, maxX, maxY] over the ring's positions
bbox(ring) ==
    LET xs == {X(ring[i]) : i \in 1..Len(ring)}
        ys == {Y(ring[i]) : i \in 1..Len(ring)}
    IN << CHOOSE m \in xs : \A v \in xs : m <= v,
          CHOOSE m \in ys : \A v \in ys : m <= v,
          CHOOSE m \in xs : \A v \in xs : m >= v,
          CHOOSE m \in ys : \A v \in ys : m >= v >>

\* The point lies on the segment a-b.
onSegment(pt, a, b) ==
    /\ Y(pt) * (X(a) - X(b)) + Y(a) * (X(b) - X(pt)) + Y(b) * (X(pt) - X(a)) = 0
    /\ (X(a) - X(pt)) * (X(b) - X(pt)) <= 0
    /\ (Y(a) - Y(pt)) * (Y(b) - Y(pt)) <= 0

\* A ray from the point towards +x crosses the segment a-b:
\* (ya > y) # (yb > y) and x < (xb - xa) * (y - ya) / (yb - ya) + xa,
\* with the division multiplied out.
rayCrosses(pt, a, b) ==
    /\ (Y(a) > Y(pt)) # (Y(b) > Y(pt))
    /\ LET dy == Y(b) - Y(a)
           l == (X(pt) - X(a)) * dy
           r == (X(b) - X(a)) * (Y(pt) - Y(a))
       IN IF dy > 0 THEN l < r ELSE l > r

\* A point-in-polygon test that accepts every point.
booleanPointInPolygon_Always(pt, ring) == TRUE

\* turf.booleanPointInPolygon with its default ignoreBoundary = false:
\* a point of the boundary is inside, any other point by the even-odd rule.
booleanPointInPolygon(pt, ring) ==
    LET edges == 1..(Len(ring) - 1)
    IN \/ \E i \in edges : onSegment(pt, ring[i], ring[i + 1])
       \/ Cardinality({i \in edges : rayCrosses(pt, ring[i], ring[i + 1])}) % 2 = 1

----------------------------------------------------------------------------
(* The point sampler *)

\* Math.random(): the generator steps through its RandMod states; a call in
\* state rng returns the fraction rng / RandMod of [0, 1).
NextRandom(rng) == (rng + 1) % RandMod

\* bbox[lo] + Math.random() * (bbox[hi] - bbox[lo]), rounded down to the grid
Scale(lo, hi, rng) == lo + (rng * (hi - lo)) \div RandMod

\* The value generateRandomPointsInPolygon has when its loop never ends.
Hang == << <<"hang">> >>

\* generateRandomPointsInPolygon(polygon, count), the generator being in state
\* rng at the call.  The candidate points repeat after RandMod draws, so after
\* RandMod rejections in a row no draw is ever accepted and the loop runs forever.
RECURSIVE SampleLoop(_, _, _, _, _)
SampleLoop(ring, count, points, rng, rejected) ==
    IF Len(points) >= count THEN points
    ELSE IF rejected >= RandMod THEN Hang
    ELSE LET box == bbox(ring)
             x == Scale(box[1], box[3], rng)
             y == Scale(box[2], box[4], NextRandom(rng))
             rng2 == NextRandom(NextRandom(rng))
         IN IF booleanPointInPolygon(<<x, y>>, ring)
            THEN SampleLoop(ring, count, Append(points, <<x, y>>), rng2, 0)
            ELSE SampleLoop(ring, count, points, rng2, rejected + 1)

generateRandomPointsInPolygon(ring, count, rng) ==
    SampleLoop(ring, count, <<>>, rng, 0)

NoArgs == [polygon |-> <<>>, count |-> 0, rng |-> 0]

\* The pairing loop of generateRoutes: [p0,p1], [p2,p3], ...; an odd last
\* point is dropped.
PairUp(points) ==
    [k \in 1..(Len(points) \div 2) |-> <<points[2 * k - 1], points[2 * k]>>]

----------------------------------------------------------------------------
(* Values of the component's state *)

\* The slider's positions, and those the model moves it to.
SliderValues ==
    {v \in SliderMin..SliderMax : (v - SliderMin) % SliderStep = 0}
SlidValues ==
    {v \in SliderValues :
        v >= SliderDefault /\ v <= SliderDefault + MaxSlide * SliderStep}

\* Where the map is clicked.
ClickPoints == {<<k, k>> : k \in 0..MaxClick}

\* Durations (seconds) the routing provider answers with.
Durations == {60 * SliderDefault, 60 * (SliderDefault + SliderStep)}

\* The messages of setError; null is the message with text "null".
NoError == [text |-> "null", count |-> 0, minutes |-> 0, cause |-> ""]
NoRoutesError(minutes) ==
    [text |-> "Could not find any routes", count |-> 0, minutes |-> minutes,
     cause |-> ""]
FewRoutesError(count, minutes) ==
    [text |-> "Could only find routes", count |-> count, minutes |-> minutes,
     cause |-> ""]
FatalError(cause) ==
    [text |-> "Failed to generate routes", count |-> 0, minutes |-> 0,
     cause |-> cause]

\* The messages of the errors thrown into generateRoutes' catch block.
IsochroneFailed == "Failed to fetch isochrone"
StyleNotLoaded == "Style is not done loading"

\* new mapboxgl.Map(...): its style is not loaded yet, it has no layers.
NewMap == [loaded |-> FALSE, sources |-> {}, layers |-> {}]

RouteId(index) == "route-" \o toString(index)

\* The render generateRoutes was created in: the values of walkDuration, lng,
\* lat and activeRouteIndex it reads, and routes.length > 0 of that render.
NoClosure ==
    [walkDuration |-> 0, lng |-> 0, lat |-> 0, activeRouteIndex |-> "0",
     hadRoutes |-> FALSE]

\* A provider call: the url's coordinates and contours_minutes.
IsochroneRequest(x, y, minutes) ==
    [api |-> "isochrone", coordinates |-> << <<x, y>> >>, minutes |-> minutes]
DirectionsRequest(start, waypoints) ==
    [api |-> "directions", coordinates |-> <<start>> \o waypoints \o <<start>>,
     minutes |-> 0]

\* What a settled call hands to its continuation.
NoResponse ==
    [status |-> "none", polygon |-> <<>>, duration |-> 0, coordinates |-> <<>>]
Rejected ==
    [status |-> "error", polygon |-> <<>>, duration |-> 0, coordinates |-> <<>>]
IsochroneOk(ring) ==
    [status |-> "ok", polygon |-> ring, duration |-> 0, coordinates |-> <<>>]
\* data.routes[0]: a round trip through the requested coordinates.
DirectionsOk(req, duration) ==
    [status |-> "ok", polygon |-> <<>>, duration |-> duration,
     coordinates |-> req.coordinates]

----------------------------------------------------------------------------
(* The pure parts of the component *)

\* Half the walk duration without its floor of 5 minutes.
halfDuration_NoFloor(minutes) == minutes \div 2

\* Math.max(Math.floor(walkDuration / 2), 5)
halfDuration(minutes) == Max(minutes \div 2, MinHalfDuration)

\* The duration filter with the budget taken as seconds' worth of hours:
\* it keeps every route below 60 times the budget in minutes.
filterRoutesByDuration_Hours(rs, maxDuration) ==
    LET maxDurationSeconds == maxDuration * 60 * 60
        Within(route) == route.duration <= maxDurationSeconds
    IN SelectSeq(rs, Within)

filterRoutesByDuration(rs, maxDuration) ==
    LET maxDurationSeconds == maxDuration * 60
        Within(route) == route.duration <= maxDurationSeconds
    IN SelectSeq(rs, Within)

\* routePromises.forEach((response, index) => allRoutes.push({...}))
BuildRoutes(promises, waypoints) ==
    [index \in 1..Len(promises) |->
        [id |-> index - 1,
         duration |-> promises[index].duration,
         coordinates |-> promises[index].coordinates,
         waypoints |-> waypoints[index]]]

\* The routes generateRoutes hands to addRoutesToMap.
RoutesToAdd(filteredRoutes) ==
    IF Len(filteredRoutes) < MaxDisplayed THEN filteredRoutes
    ELSE SubSeq(filteredRoutes, 1, MaxDisplayed)

clearMapLayers(m) ==
    LET routeIds == {RouteId(k) : k \in 0..(ClearedRouteIds - 1)}
    IN [m EXCEPT
          !.layers = {l \in @ : l.id \notin {"isochrone-fill", "isochrone-line"} \cup routeIds},
          !.sources = @ \ ({"isochrone"} \cup routeIds)]

\* map.addSource("isochrone") and the two addLayer calls of generateRoutes
addIsochrone(m) ==
    [m EXCEPT
       !.sources = @ \cup {"isochrone"},
       !.layers = @ \cup {[id |-> "isochrone-fill", visibility |-> "visible"],
                          [id |-> "isochrone-line", visibility |-> "visible"]}]

\* addRoutesToMap: the sources and layers, and the markers it pushes
addRouteLayers(m, routesToAdd, active) ==
    [m EXCEPT
       !.sources = @ \cup {RouteId(k - 1) : k \in 1..Len(routesToAdd)},
       !.layers = @ \cup
          {[id |-> RouteId(k - 1),
            visibility |-> IF k - 1 = parseInt(active) THEN "visible" ELSE "none"] :
              k \in 1..Len(routesToAdd)}]

addRouteMarkers(markers, routesToAdd, active) ==
    markers \o
    [j \in 1..(2 * Len(routesToAdd)) |->
        LET index == (j - 1) \div 2
        IN [lngLat |-> routesToAdd[index + 1].waypoints[((j - 1) % 2) + 1],
            display |-> IF index # parseInt(active) THEN "none" ELSE ""]]

\* showActiveRoute: the layers and the markers after it
showLayers(m, shown, routeIndex) ==
    LET index == parseInt(routeIndex)
        hidden == {RouteId(k - 1) : k \in 1..Len(shown)}
    IN [m EXCEPT !.layers =
          {[id |-> l.id,
            visibility |-> IF l.id = RouteId(index) THEN "visible"
                           ELSE IF l.id \in hidden THEN "none"
                           ELSE l.visibility] : l \in @}]

showMarkers(markers, shown, routeIndex) ==
    LET index == parseInt(routeIndex)
    IN [j \in 1..Len(markers) |->
          LET owner == (j - 1) \div 2
          IN [markers[j] EXCEPT !.display =
                IF owner = index THEN "block"
                ELSE IF owner < Len(shown) THEN "none"
                ELSE @]]

----------------------------------------------------------------------------
(* The initial state: the component is mounted, the first map is created    *)
(* by the effect and loads its style.                                       *)

Init ==
    /\ lng = 0
    /\ lat = 0
    /\ walkDuration = SliderDefault
    /\ loading = FALSE
    /\ routes = <<>>
    /\ activeRouteIndex = "0"
    /\ error = NoError
    /\ mapInitialized = FALSE
    /\ map = NewMap
    /\ waypointMarkersRef = <<>>
    /\ pc = "idle"
    /\ closure = NoClosure
    /\ isochroneResponse = <<>>
    /\ randomPoints = <<>>
    /\ routeWaypoints = <<>>
    /\ routePromises = <<>>
    /\ pairIndex = 0
    /\ requests = EmptyBag
    /\ response = NoResponse
    /\ args = NoArgs

\* An event handler runs only between two tasks: not while a settled call's
\* continuation is due, and never once the sampler's loop spins.
Quiet == response = NoResponse /\ pc # "hang"

uiVars == <<lng, lat, walkDuration, loading, routes, activeRouteIndex, error,
            mapInitialized, map, waypointMarkersRef>>
runVars == <<pc, closure, isochroneResponse, randomPoints, routeWaypoints,
             routePromises, pairIndex>>
netVars == <<requests, response, args>>

----------------------------------------------------------------------------
(* The map and the controls *)

\* map.current.on("load", ...)
MapLoad ==
    /\ Quiet
    /\ ~map.loaded
    /\ map' = [map EXCEPT !.loaded = TRUE]
    /\ mapInitialized' = TRUE
    /\ UNCHANGED <<lng, lat, walkDuration, loading, routes, activeRouteIndex,
                   error, waypointMarkersRef>>
    /\ UNCHANGED <<runVars, netVars>>

\* The click handler is registered when the map has loaded.  setLng/setLat
\* with a new point change the dependencies of the map effect: its cleanup
\* removes the map and the effect creates a new one.
handleMapClick(e) ==
    /\ Quiet
    /\ map.loaded
    /\ lng' = e[1]
    /\ lat' = e[2]
    /\ waypointMarkersRef' = <<>>
    /\ routes' = <<>>
    /\ map' = IF <<e[1], e[2]>> # <<lng, lat>> THEN NewMap ELSE clearMapLayers(map)
    /\ UNCHANGED <<walkDuration, loading, activeRouteIndex, error, mapInitialized>>
    /\ UNCHANGED <<runVars, netVars>>

\* The tabs are rendered for a non-empty route set, one per route.
handleTabChange(value) ==
    /\ Quiet
    /\ routes # <<>>
    /\ value \in {toString(k - 1) : k \in 1..Len(routes)}
    /\ activeRouteIndex' = value
    /\ map' = showLayers(map, routes, value)
    /\ waypointMarkersRef' = showMarkers(waypointMarkersRef, routes, value)
    /\ UNCHANGED <<lng, lat, walkDuration, loading, routes, error, mapInitialized>>
    /\ UNCHANGED <<runVars, netVars>>

handleWalkDurationChange(value) ==
    /\ Quiet
    /\ value # walkDuration
    /\ walkDuration' = value
    /\ UNCHANGED <<lng, lat, loading, routes, activeRouteIndex, error,
                   mapInitialized, map, waypointMarkersRef>>
    /\ UNCHANGED <<runVars, netVars>>

----------------------------------------------------------------------------
(* generateRoutes *)

\* generateRoutes without its setRoutes([]): the displayed routes stay in
\* the state while the run is in flight.
generateRoutes_KeepsRoutes ==
    /\ Quiet
    /\ ~loading
    /\ mapInitialized
    /\ loading' = TRUE
    /\ error' = NoError
    /\ activeRouteIndex' = "0"
    /\ map' = clearMapLayers(map)
    /\ waypointMarkersRef' = <<>>
    /\ closure' = [walkDuration |-> walkDuration, lng |-> lng, lat |-> lat,
                   activeRouteIndex |-> activeRouteIndex,
                   hadRoutes |-> Len(routes) > 0]
    /\ requests' = requests (+)
                     SetToBag({IsochroneRequest(lng, lat, halfDuration(walkDuration))})
    /\ pc' = "getIsochrone"
    /\ UNCHANGED <<lng, lat, walkDuration, routes, mapInitialized,
                   isochroneResponse, randomPoints, routeWaypoints, routePromises,
                   pairIndex, response, args>>

\* generateRoutes behind a button that is not disabled while loading.
generateRoutes_NotDisabled ==
    /\ Quiet
    /\ mapInitialized
    /\ loading' = TRUE
    /\ error' = NoError
    /\ routes' = <<>>
    /\ activeRouteIndex' = "0"
    /\ map' = clearMapLayers(map)
    /\ waypointMarkersRef' = <<>>
    /\ closure' = [walkDuration |-> walkDuration, lng |-> lng, lat |-> lat,
                   activeRouteIndex |-> activeRouteIndex,
                   hadRoutes |-> Len(routes) > 0]
    /\ requests' = requests (+)
                     SetToBag({IsochroneRequest(lng, lat, halfDuration(walkDuration))})
    /\ pc' = "getIsochrone"
    /\ UNCHANGED <<lng, lat, walkDuration, mapInitialized, isochroneResponse,
                   randomPoints, routeWaypoints, routePromises, pairIndex,
                   response, args>>

\* The button is disabled while loading or before the map is initialized;
\* map.current is never null while the component is mounted.  Runs to the
\* first await: the reachability call is issued.
generateRoutes ==
    /\ Quiet
    /\ ~loading
    /\ mapInitialized
    /\ loading' = TRUE
    /\ error' = NoError
    /\ routes' = <<>>
    /\ activeRouteIndex' = "0"
    /\ map' = clearMapLayers(map)
    /\ waypointMarkersRef' = <<>>
    /\ closure' = [walkDuration |-> walkDuration, lng |-> lng, lat |-> lat,
                   activeRouteIndex |-> activeRouteIndex,
                   hadRoutes |-> Len(routes) > 0]
    /\ requests' = requests (+)
                     SetToBag({IsochroneRequest(lng, lat, halfDuration(walkDuration))})
    /\ pc' = "getIsochrone"
    /\ UNCHANGED <<lng, lat, walkDuration, mapInitialized, isochroneResponse,
                   randomPoints, routeWaypoints, routePromises, pairIndex,
                   response, args>>

\* The provider settles the reachability call: it fails, or answers a polygon.
getIsochrone ==
    /\ response = NoResponse
    /\ \E req \in BagToSet(requests) :
         /\ req.api = "isochrone"
         /\ requests' = requests (-) SetToBag({req})
         /\ response' \in {Rejected} \cup {IsochroneOk(ring) : ring \in Polygons}
    /\ UNCHANGED <<uiVars, runVars, args>>

\* The provider settles a routing call: it fails (also when it answers no
\* route), or answers a round trip through the requested coordinates.
getDirections ==
    /\ response = NoResponse
    /\ \E req \in BagToSet(requests) :
         /\ req.api = "directions"
         /\ requests' = requests (-) SetToBag({req})
         /\ response' \in {Rejected} \cup {DirectionsOk(req, d) : d \in Durations}
    /\ UNCHANGED <<uiVars, runVars, args>>

\* The run is over: its locals are gone.
RunEnds ==
    /\ pc' = "idle"
    /\ closure' = NoClosure
    /\ isochroneResponse' = <<>>
    /\ randomPoints' = <<>>
    /\ routeWaypoints' = <<>>
    /\ routePromises' = <<>>
    /\ pairIndex' = 0
    /\ response' = NoResponse
    /\ UNCHANGED <<requests, args>>

\* The catch block without the finally block: loading stays true.
Catch_NoFinally(cause, m, markers) ==
    /\ error' = FatalError(cause)
    /\ loading' = loading
    /\ map' = m
    /\ waypointMarkersRef' = markers
    /\ RunEnds
    /\ UNCHANGED <<lng, lat, walkDuration, routes, activeRouteIndex, mapInitialized>>

\* catch (err) { setError(...) } finally { setLoading(false) }
Catch(cause, m, markers) ==
    /\ error' = FatalError(cause)
    /\ loading' = FALSE
    /\ map' = m
    /\ waypointMarkersRef' = markers
    /\ RunEnds
    /\ UNCHANGED <<lng, lat, walkDuration, routes, activeRouteIndex, mapInitialized>>

\* The end of generateRoutes with setLoading(false) in the catch block only.
Finish_LoadingOnlyInCatch(promises, waypoints, m) ==
    LET allRoutes == BuildRoutes(promises, waypoints)
        filteredRoutes == filterRoutesByDuration(allRoutes, closure.walkDuration)
        routesToAdd == RoutesToAdd(filteredRoutes)
    IN IF Len(filteredRoutes) < 1
       THEN /\ error' = NoRoutesError(closure.walkDuration)
            /\ loading' = loading
            /\ map' = m
            /\ RunEnds
            /\ UNCHANGED <<lng, lat, walkDuration, routes, activeRouteIndex,
                           mapInitialized, waypointMarkersRef>>
       ELSE IF ~m.loaded
       THEN Catch(StyleNotLoaded, m, waypointMarkersRef)
       ELSE /\ error' = IF Len(filteredRoutes) < MaxDisplayed
                        THEN FewRoutesError(Len(filteredRoutes), closure.walkDuration)
                        ELSE error
            /\ map' = addRouteLayers(m, routesToAdd, closure.activeRouteIndex)
            /\ waypointMarkersRef' =
                 addRouteMarkers(waypointMarkersRef, routesToAdd,
                                 closure.activeRouteIndex)
            /\ routes' = routesToAdd
            /\ loading' = loading
            /\ RunEnds
            /\ UNCHANGED <<lng, lat, walkDuration, activeRouteIndex, mapInitialized>>

\* From "Process all successful routes" to the end of generateRoutes.
\* addSource throws on a map whose style has not loaded; fitBounds does not.
Finish(promises, waypoints, m) ==
    LET allRoutes == BuildRoutes(promises, waypoints)
        filteredRoutes == filterRoutesByDuration(allRoutes, closure.walkDuration)
        routesToAdd == RoutesToAdd(filteredRoutes)
    IN IF Len(filteredRoutes) < 1
       THEN /\ error' = NoRoutesError(closure.walkDuration)
            /\ loading' = FALSE
            /\ map' = m
            /\ RunEnds
            /\ UNCHANGED <<lng, lat, walkDuration, routes, activeRouteIndex,
                           mapInitialized, waypointMarkersRef>>
       ELSE IF ~m.loaded
       THEN Catch(StyleNotLoaded, m, waypointMarkersRef)
       ELSE /\ error' = IF Len(filteredRoutes) < MaxDisplayed
                        THEN FewRoutesError(Len(filteredRoutes), closure.walkDuration)
                        ELSE error
            /\ map' = addRouteLayers(m, routesToAdd, closure.activeRouteIndex)
            /\ waypointMarkersRef' =
                 addRouteMarkers(waypointMarkersRef, routesToAdd,
                                 closure.activeRouteIndex)
            /\ routes' = routesToAdd
            /\ loading' = FALSE
            /\ RunEnds
            /\ UNCHANGED <<lng, lat, walkDuration, activeRouteIndex, mapInitialized>>

\* The for-of loop reaches the pair at position k: its routing call is
\* issued, or the loop is over.
LoopAt(k, promises, waypoints, m) ==
    IF k <= Len(waypoints)
    THEN /\ pc' = "getDirections"
         /\ pairIndex' = k
         /\ routePromises' = promises
         /\ routeWaypoints' = waypoints
         /\ requests' = requests (+)
              SetToBag({DirectionsRequest(<<closure.lng, closure.lat>>, waypoints[k])})
         /\ response' = NoResponse
         /\ map' = m
         /\ UNCHANGED <<lng, lat, walkDuration, loading, routes, activeRouteIndex,
                        error, mapInitialized, waypointMarkersRef, closure, args>>
    ELSE Finish(promises, waypoints, m)

\* The reachability call has settled: from the await of getIsochrone to the
\* await of the first getDirections.
afterIsochrone ==
    /\ pc = "getIsochrone"
    /\ response # NoResponse
    /\ IF response.status = "error"
       THEN Catch(IsochroneFailed, map, waypointMarkersRef)
       ELSE IF ~map.loaded
       THEN Catch(StyleNotLoaded, map, waypointMarkersRef)
       ELSE \E rng \in 0..MaxSeed :
              LET points == generateRandomPointsInPolygon(
                                response.polygon, SampleCount, rng)
              IN IF points = Hang
                 THEN /\ pc' = "hang"
                      /\ map' = addIsochrone(map)
                      /\ isochroneResponse' = response.polygon
                      /\ response' = NoResponse
                      /\ UNCHANGED <<lng, lat, walkDuration, loading, routes,
                                     activeRouteIndex, error, mapInitialized,
                                     waypointMarkersRef, closure, randomPoints,
                                     routeWaypoints, routePromises, pairIndex,
                                     requests, args>>
                 ELSE /\ isochroneResponse' = response.polygon
                      /\ randomPoints' = points
                      /\ LoopAt(1, <<>>, PairUp(points), addIsochrone(map))

\* A routing call has settled: the try/catch inside the loop, then the next
\* pair or the rest of generateRoutes.
afterDirections ==
    /\ pc = "getDirections"
    /\ response # NoResponse
    /\ LET promises ==
               IF response.status = "ok"
               THEN Append(routePromises,
                           [duration |-> response.duration,
                            coordinates |-> response.coordinates])
               ELSE routePromises
       IN /\ LoopAt(pairIndex + 1, promises, routeWaypoints, map)
          /\ pc' = "getDirections" => UNCHANGED <<isochroneResponse, randomPoints>>

Next ==
    \/ MapLoad
    \/ \E e \in ClickPoints : handleMapClick(e)
    \/ \E value \in {toString(k) : k \in 0..(MaxDisplayed - 1)} : handleTabChange(value)
    \/ \E value \in SlidValues : handleWalkDurationChange(value)
    \/ generateRoutes
    \/ getIsochrone
    \/ afterIsochrone
    \/ getDirections
    \/ afterDirections

Spec == Init /\ [][Next]_vars

\* Every provider call is settled in the end (fetch resolves or rejects), and
\* the continuation of a settled call is run by the event loop.  Nothing is
\* required of the user's actions or of the map's load event.
Fairness ==
    /\ WF_vars(getIsochrone)
    /\ WF_vars(getDirections)
    /\ WF_vars(afterIsochrone)
    /\ WF_vars(afterDirections)

\* The component without the slider and the tabs, whose handlers write
\* nothing that decides how a run goes on (walkDuration is read when the run
\* starts, activeRouteIndex and the layers' visibility when it adds routes).
NextLive ==
    \/ MapLoad
    \/ \E e \in ClickPoints : handleMapClick(e)
    \/ generateRoutes
    \/ getIsochrone
    \/ afterIsochrone
    \/ getDirections
    \/ afterDirections

FairSpec == Init /\ [][NextLive]_vars /\ Fairness

----------------------------------------------------------------------------
(* The sampler alone: generateRandomPointsInPolygon and the pairing loop    *)
(* applied to every polygon, count and generator state of the bounds.       *)

InitSample ==
    /\ Init!1 /\ Init!2 /\ Init!3 /\ Init!4 /\ Init!5 /\ Init!6 /\ Init!7
    /\ Init!8 /\ Init!9 /\ Init!10 /\ Init!11 /\ Init!12 /\ Init!13 /\ Init!14
    /\ Init!15 /\ Init!16 /\ Init!17 /\ Init!18 /\ Init!19
    /\ args \in [polygon : SamplePolygons, count : 0..MaxCount, rng : 0..(RandMod - 1)]

Sample ==
    /\ args # NoArgs
    /\ isochroneResponse = <<>>
    /\ isochroneResponse' = args.polygon
    /\ LET points == generateRandomPointsInPolygon(args.polygon, args.count, args.rng)
       IN /\ randomPoints' = points
          /\ routeWaypoints' = IF points = Hang THEN <<>> ELSE PairUp(points)
    /\ UNCHANGED <<uiVars, pc, closure, routePromises, pairIndex, netVars>>

SpecSample == InitSample /\ [][Sample]_vars

----------------------------------------------------------------------------
(* The reachability request for every walk duration: the component with a   *)
(* loaded map and any walk duration 0..MaxWalk in its state, the slider     *)
(* and the start of generateRoutes.                                         *)

InitHalf ==
    /\ Init!1 /\ Init!2 /\ Init!4 /\ Init!5 /\ Init!6 /\ Init!7
    /\ Init!10 /\ Init!11 /\ Init!12 /\ Init!13 /\ Init!14
    /\ Init!15 /\ Init!16 /\ Init!17 /\ Init!18 /\ Init!19 /\ Init!20
    /\ walkDuration \in 0..MaxWalk
    /\ mapInitialized = TRUE
    /\ map = [NewMap EXCEPT !.loaded = TRUE]

NextHalf ==
    \/ \E value \in SlidValues : handleWalkDurationChange(value)
    \/ generateRoutes
    \/ getIsochrone
    \/ afterIsochrone

SpecHalf == InitHalf /\ [][NextHalf]_vars

----------------------------------------------------------------------------
(* Properties *)

\* The responses of the routing calls of a run whose last call has settled.
LastPromises ==
    IF response.status = "ok"
    THEN Append(routePromises,
                [duration |-> response.duration, coordinates |-> response.coordinates])
    ELSE routePromises

\* The candidates of that run that pass the duration filter: those whose
\* duration is at most the budget, the walk duration the run closed over.
WithinBudget(route) == route.duration <= 60 * closure.walkDuration
Passing == SelectSeq(BuildRoutes(LastPromises, routeWaypoints), WithinBudget)

\* The next step runs generateRoutes from its last routing call to its end.
LastCallSettled ==
    /\ pc = "getDirections"
    /\ response # NoResponse
    /\ pairIndex = Len(routeWaypoints)

\* The step ends a run in the catch block.
FatalEnd ==
    /\ pc # "idle"
    /\ pc' = "idle"
    /\ error'.text = "Failed to generate routes"

(* C1: whenever a run of generateRoutes sets the displayed route set, every
   route of the set has a duration of at most 60 times the walk duration the
   run closed over when it started. *)
C1_DurationWithinBudget ==
    [][routes' # routes =>
         \A k \in 1..Len(routes') :
            routes'[k].duration <= 60 * closure.walkDuration]_vars

\* A route set is displayed whose first route is not the run's first
\* candidate: an earlier candidate was over the budget and dropped.
C1_Witness ==
    /\ ~loading
    /\ routes # <<>>
    /\ routes[1].id > 0

(* C2: the step that ends a run displays exactly the first min(3, k) of the
   run's k candidates that pass the duration filter, in the candidates'
   order; and the route set has at most 3 elements in every state. *)
C2_FirstThreeInOrder ==
    /\ [][LastCallSettled =>
            routes' = SubSeq(Passing, 1, Min(3, Len(Passing)))]_vars
    /\ [](Len(routes) <= 3)

(* C3: a run whose reachability call succeeded goes on to the routing calls,
   and ends, by the number k of candidates that pass the filter, with no
   route and the "no routes" message (k = 0), with exactly those k routes and
   the "fewer than 3" message (k = 1 or 2), or with exactly 3 routes and no
   message (k >= 3). *)
C3_ThreeOutcomes ==
    [][/\ (pc = "getIsochrone" /\ response.status = "ok") => pc' # "idle"
       /\ LastCallSettled =>
            LET k == Len(Passing)
            IN /\ k = 0 =>
                    /\ routes' = <<>>
                    /\ error' = NoRoutesError(closure.walkDuration)
               /\ k \in {1, 2} =>
                    /\ routes' = Passing
                    /\ error' = FewRoutesError(k, closure.walkDuration)
               /\ k >= 3 =>
                    /\ Len(routes') = 3
                    /\ error' = NoError]_vars

(* C4: a failed routing call never aborts the run.  While pairs are left the
   next pair's call is issued and nothing else changes; a successful call
   adds one candidate; every run requests its 6 pairs in turn; a run that has
   got to its routing calls does not end in the catch block; and when all 6
   calls have failed the run ends with no route and the "no routes" message. *)
C4_FailedCallSkipped ==
    /\ [][/\ (pc = "getDirections" /\ response.status = "error") =>
               /\ pairIndex < 6 =>
                    /\ pc' = "getDirections"
                    /\ pairIndex' = pairIndex + 1
                    /\ requests' = SetToBag({DirectionsRequest(<<closure.lng, closure.lat>>,
                                                               routeWaypoints[pairIndex + 1])})
                    /\ routePromises' = routePromises
                    /\ loading' /\ error' = error /\ routes' = routes
               /\ (pairIndex = 6 /\ routePromises = <<>>) =>
                    /\ routes' = <<>>
                    /\ error' = NoRoutesError(closure.walkDuration)
          /\ (pc = "getDirections" /\ response.status = "ok" /\ pairIndex < 6) =>
               /\ pc' = "getDirections"
               /\ Len(routePromises') = Len(routePromises) + 1
               /\ routePromises'[Len(routePromises')].coordinates
                     = response.coordinates
          /\ pc = "getDirections" => ~FatalEnd]_vars
    /\ [](pc = "getDirections" =>
            /\ Len(routeWaypoints) = 6
            /\ pairIndex \in 1..6
            /\ Len(routePromises) <= pairIndex - 1)

(* C5: when the reachability call of a run has failed, the run ends in that
   step: no point is sampled, no routing call is issued, the route set is
   empty, the map has no source, no layer and no waypoint marker, the
   message is the fatal one and loading is false.  No routing call is ever
   outstanding outside the routing loop. *)
C5_ReachabilityFailureFatal ==
    /\ [][(pc = "getIsochrone" /\ response.status = "error") =>
            /\ pc' = "idle"
            /\ randomPoints' = <<>>
            /\ routeWaypoints' = <<>>
            /\ requests' = EmptyBag
            /\ routes' = <<>>
            /\ map'.sources = {} /\ map'.layers = {}
            /\ waypointMarkersRef' = <<>>
            /\ error' = FatalError(IsochroneFailed)
            /\ ~loading']_vars
    /\ [](\A req \in BagToSet(requests) : req.api = "directions" => pc = "getDirections")

\* A run has ended on a failed reachability call.
C5_Witness ==
    /\ pc = "idle"
    /\ ~loading
    /\ error = FatalError(IsochroneFailed)

(* C6, as claimed: a run that ends in the catch block leaves the route set
   that was displayed when the generate action started; in particular it
   leaves routes displayed if the render it started from displayed routes. *)
C6_LastGoodStateKept ==
    [][FatalEnd => (Len(routes') > 0) = closure.hadRoutes]_vars

(* C6, amended: a run that ends in the catch block sets the one fatal
   message and leaves the route set empty, with no source, no layer and no
   waypoint marker on the map, and loading false: what was
   displayed before the run was removed when it started and is not restored. *)
C6_FatalLeavesNoRoutes ==
    [][FatalEnd =>
         /\ error' \in {FatalError(IsochroneFailed), FatalError(StyleNotLoaded)}
         /\ routes' = <<>>
         /\ map'.sources = {}
         /\ map'.layers = {}
         /\ waypointMarkersRef' = <<>>
         /\ ~loading']_vars

\* A run has ended in the catch block.
C6_Witness ==
    /\ pc = "idle"
    /\ ~loading
    /\ error.text = "Failed to generate routes"
    /\ routes = <<>>

\* The polygons of the model by their inequalities.
InsideByInequality(p, ring) ==
    IF ring = Triangle THEN X(p) >= 0 /\ Y(p) >= 0 /\ X(p) + Y(p) <= 4
    ELSE IF ring = Wedge THEN 0 <= X(p) /\ X(p) <= Y(p) /\ Y(p) <= 4
    ELSE IF ring = Sliver THEN X(p) <= 4 /\ Y(p) <= 1 /\ X(p) + 4 * Y(p) >= 4
    ELSE FALSE

(* C7: when generateRandomPointsInPolygon(P, N) returns, it returns exactly
   N points, each of which passes the point-in-polygon test for P; and both
   points of every pair built from the sampled points lie inside P. *)
C7_SampledPointsInside ==
    (isochroneResponse # <<>> /\ randomPoints # Hang) =>
        /\ Len(randomPoints) = args.count
        /\ \A k \in 1..Len(randomPoints) :
              /\ booleanPointInPolygon(randomPoints[k], args.polygon)
              /\ InsideByInequality(randomPoints[k], args.polygon)
        /\ Len(routeWaypoints) = args.count \div 2
        /\ \A k \in 1..Len(routeWaypoints) :
              /\ routeWaypoints[k] = <<randomPoints[2 * k - 1], randomPoints[2 * k]>>
              /\ \A j \in 1..2 :
                    booleanPointInPolygon(routeWaypoints[k][j], isochroneResponse)

\* The sampler has returned the 12 points of a run for a polygon whose
\* bounding box holds points outside it.
C7_Witness ==
    /\ args.polygon = Triangle
    /\ args.count = SampleCount
    /\ isochroneResponse = Triangle
    /\ Len(randomPoints) = SampleCount
    /\ Len(routeWaypoints) = 6
    /\ \E x \in 0..3, y \in 0..3 : ~booleanPointInPolygon(<<x, y>>, Triangle)

(* C8: the reachability call of a run asks for max(floor(d / 2), 5) minutes,
   d being the walk duration the run closed over: at least 5, and half of d
   rounded down from d = 10 on. *)
C8_HalfDuration ==
    \A req \in BagToSet(requests) :
        req.api = "isochrone" =>
            LET d == closure.walkDuration
                m == req.minutes
            IN /\ m >= 5
               /\ d < 10 => m = 5
               /\ d >= 10 => (2 * m <= d /\ d <= 2 * m + 1)
               /\ d = 30 => m = 15
               /\ d = 8 => m = 5
               /\ d = 10 => m = 5
               /\ d = 90 => m = 45

\* The reachability call of a run of 8 minutes is outstanding.
C8_Witness ==
    /\ closure.walkDuration = 8
    /\ \E req \in BagToSet(requests) : req.api = "isochrone" /\ req.minutes = 5

(* C9: every displayed route was generated from the current starting point:
   it is a round trip that starts at <<lng, lat>>. *)
C9_RoutesFromCurrentOrigin ==
    \A k \in 1..Len(routes) : routes[k].coordinates[1] = <<lng, lat>>

(* C10: every displayed route carries as its waypoints the pair that was sent
   in the routing call that produced its coordinates. *)
C10_OriginatingWaypoints ==
    \A k \in 1..Len(routes) :
        routes[k].waypoints = SubSeq(routes[k].coordinates, 2, 3)

(* C11: at most one provider call is outstanding in every state.  None is
   outstanding while no run is in flight or while a settled call's
   continuation is due; loading is true exactly while a run is in flight.
   An outstanding routing call belongs to a run whose reachability call has
   answered a polygon, and is the call of the pair the loop is at, one of the
   6 pairs built in order from the sampled points.  A call is issued only
   when none is outstanding: by a generate action started while not loading,
   by the continuation of the successful reachability call (pair 1), or by
   the continuation of a settled routing call (the next pair). *)
C11_OneCallOutstanding ==
    /\ [](/\ BagCardinality(requests) <= 1
          /\ (pc = "idle" \/ response # NoResponse) => requests = EmptyBag
          /\ loading <=> pc # "idle"
          /\ \A req \in BagToSet(requests) :
                /\ req.api = "isochrone" => pc = "getIsochrone"
                /\ req.api = "directions" =>
                     /\ pc = "getDirections"
                     /\ isochroneResponse \in Polygons
                     /\ routeWaypoints = PairUp(randomPoints)
                     /\ Len(routeWaypoints) = 6
                     /\ pairIndex \in 1..6
                     /\ req = DirectionsRequest(<<closure.lng, closure.lat>>,
                                                routeWaypoints[pairIndex]))
    /\ [][BagCardinality(requests') > BagCardinality(requests) \/ pairIndex' # pairIndex =>
            /\ requests = EmptyBag
            /\ \/ /\ pc = "idle" /\ ~loading /\ response = NoResponse
                  /\ pc' = "getIsochrone"
               \/ /\ pc = "getIsochrone" /\ response.status = "ok"
                  /\ pc' = "getDirections" /\ pairIndex' = 1
               \/ /\ pc = "getDirections" /\ response # NoResponse
                  /\ \/ pc' = "getDirections" /\ pairIndex' = pairIndex + 1
                     \/ pc' = "idle" /\ pairIndex = 6 /\ requests' = EmptyBag]_vars

\* The routing call of the sixth pair of a run is outstanding.
C11_Witness ==
    /\ pc = "getDirections"
    /\ pairIndex = 6
    /\ BagCardinality(requests) = 1
    /\ loading

(* C12: whenever the route set is not empty and no run is in flight, the
   route layers on the map are those of the displayed routes, the one of the
   active tab is visible and all others are hidden, and the waypoint markers
   shown are the pair of the active tab's route. *)
C12_VisibleIsActive ==
    (routes # <<>> /\ pc = "idle") =>
        LET active == parseInt(activeRouteIndex)
            ids == {RouteId(k - 1) : k \in 1..Len(routes)}
        IN /\ \A id \in ids :
                 [id |-> id,
                  visibility |-> IF id = RouteId(active) THEN "visible" ELSE "none"]
                     \in map.layers
           /\ Len(waypointMarkersRef) = 2 * Len(routes)
           /\ \A j \in 1..Len(waypointMarkersRef) :
                 (waypointMarkersRef[j].display # "none") <=> ((j - 1) \div 2 = active)

(* C13: with every provider call settled in the end, every run that has
   started (loading true) ends with loading false, unless the sampler's loop
   never ends; the loop never ends only for a polygon that holds none of the
   points the generator draws in its bounding box. *)
C13_LoadingEnds ==
    /\ loading ~> (~loading \/ pc = "hang")
    /\ [](pc = "hang" =>
            \A rng \in 0..(RandMod - 1) :
               LET box == bbox(isochroneResponse)
               IN ~booleanPointInPolygon(
                     <<Scale(box[1], box[3], rng),
                       Scale(box[2], box[4], NextRandom(rng))>>,
                     isochroneResponse))

\* A run has started and ended with loading false on each of its paths, one
\* after the other: the last to end left routes and no message.
C13_Witness ==
    /\ ~loading
    /\ pc = "idle"
    /\ Len(routes) = 3
    /\ error = NoError

====
